---- MODULE Spec2Model ----
(***************************************************************************)
(* A model of the binding shim of src/vips.h: fourteen fixed-arity C       *)
(* functions, each issuing one call of the wrapped image library with a    *)
(* fixed combination of optional arguments.                                *)
(*                                                                         *)
(* A shim call is modelled in steps: the shim issues the wrapped call      *)
(* (pc = "in_lib"), the library returns a status and, on success, stores   *)
(* its result through the output pointers (pc = "lib_done"), the shim      *)
(* returns (pc = "done").  vips_flatten_0 has two more steps, for the      *)
(* acquisition and the release of its background array.                    *)
(*                                                                         *)
(* Values are integers: image, interpolator, buffer and file-name          *)
(* handles, addresses of output slots, ints, and doubles in tenths         *)
(* (Dbl(255, 0) is 255.0).                                                 *)
(***************************************************************************)
EXTENDS Integers, Sequences, FiniteSets, TLC

VARIABLES pc, cur, libcalls, status, ret, mem, mem0, arr, shimHeld, retained, memo

vars == <<pc, cur, libcalls, status, ret, mem, mem0, arr, shimHeld, retained, memo>>

\* ------------------------------------------------------------------ bounds

\* int arguments range over 0..MaxInt
MaxInt == 1
\* the library's status codes range over -MaxStatus..MaxStatus
MaxStatus == 1

\* ------------------------------------------------------------------ values

\* A double, in tenths.
Dbl(whole, tenths) == whole * 10 + tenths

\* C's conversion of a (non-negative) double to int: truncation.
DoubleToInt(d) == d \div 10

\* The sequential-access value of the library's access enumeration.
VIPS_ACCESS_SEQUENTIAL == 1

\* glib's TRUE.
C_TRUE == 1

\* The history probe of SpecHist draws its inputs from smaller sets.
Narrow == memo.state # "off"

Handles == {1, 2}
Slots == IF Narrow THEN {1} ELSE {1, 2}
LenSlots == {3}
AllSlots == {1, 2, 3}
IntArgs == IF Narrow THEN {0} ELSE 0..MaxInt
Doubles == IF Narrow THEN {Dbl(1, 0)} ELSE {Dbl(0, 5), Dbl(2, 0)}
Statuses == (0 - MaxStatus)..MaxStatus
Contents == {0, 1, 2}

\* The address of the cell the local variable white of vips_flatten_0 points to.
WhiteCell == 9

LibCall(fn, args, opts) == [fn |-> fn, args |-> args, opts |-> opts]

NoArray == [live |-> FALSE, data |-> <<>>]

\* ------------------------------------------------------------------ the wrapped calls
\* One operator per shim function: the wrapped call its body issues.

vips_initialize_call == LibCall("vips_init", <<>>, <<>>)

\* A blur that also passes the precision option of the commented-out line.
vips_gaussian_blur_call_precision(in, out, sigma) ==
    LibCall("vips_gaussblur", <<in, out, sigma>>, << <<"precision", 0>> >>)

vips_gaussian_blur_call(in, out, sigma) ==
    LibCall("vips_gaussblur", <<in, out, sigma>>, <<>>)

vips_affine_interpolator_call(in, out, a, b, c, d, interpolator) ==
    LibCall("vips_affine", <<in, out, a, b, c, d>>, << <<"interpolate", interpolator>> >>)

vips_jpegload_buffer_seq_call(buf, len, out) ==
    LibCall("vips_jpegload_buffer", <<buf, len, out>>,
            << <<"access", VIPS_ACCESS_SEQUENTIAL>> >>)

vips_magickload_call(filename, out) ==
    LibCall("vips_magickload", <<filename, out>>, <<>>)

\* A shrink-on-load that clamps the factor to at least 1.
vips_jpegload_buffer_shrink_call_clamped(buf, len, out, shrink) ==
    LibCall("vips_jpegload_buffer", <<buf, len, out>>,
            << <<"shrink", IF shrink < 1 THEN 1 ELSE shrink>> >>)

vips_jpegload_buffer_shrink_call(buf, len, out, shrink) ==
    LibCall("vips_jpegload_buffer", <<buf, len, out>>, << <<"shrink", shrink>> >>)

\* A PNG decoder that leaves the access hint out.
vips_pngload_buffer_seq_call_random(buf, len, out) ==
    LibCall("vips_pngload_buffer", <<buf, len, out>>, <<>>)

vips_pngload_buffer_seq_call(buf, len, out) ==
    LibCall("vips_pngload_buffer", <<buf, len, out>>,
            << <<"access", VIPS_ACCESS_SEQUENTIAL>> >>)

vips_shrink_0_call(in, out, xshrink, yshrink) ==
    LibCall("vips_shrink", <<in, out, xshrink, yshrink>>, <<>>)

\* A copy that reads the image left in the output slot by an earlier call.
vips_copy_0_call_stale(in, out) ==
    LibCall("vips_copy", <<IF mem[out] # 0 THEN mem[out] ELSE in, out>>, <<>>)

vips_copy_0_call(in, out) ==
    LibCall("vips_copy", <<in, out>>, <<>>)

vips_flatten_0_call(in, out, white) ==
    LibCall("vips_flatten", <<in, out>>, << <<"background", white>> >>)

\* An embed with left and top exchanged.
vips_embed_extend_call_swapped(in, out, left, top, width, height, extend) ==
    LibCall("vips_embed", <<in, out, top, left, width, height>>, << <<"extend", extend>> >>)

vips_embed_extend_call(in, out, left, top, width, height, extend) ==
    LibCall("vips_embed", <<in, out, left, top, width, height>>, << <<"extend", extend>> >>)

vips_colourspace_0_call(in, out, space) ==
    LibCall("vips_colourspace", <<in, out, space>>, <<>>)

vips_extract_area_0_call(in, out, left, top, width, height) ==
    LibCall("vips_extract_area", <<in, out, left, top, width, height>>, <<>>)

\* An encoder whose optimize_coding follows the strip argument.
vips_jpegsave_custom_call_optional(in, buf, len, strip, quality, interlace) ==
    LibCall("vips_jpegsave_buffer", <<in, buf, len>>,
            << <<"strip", strip>>, <<"Q", quality>>,
               <<"optimize_coding", strip>>, <<"interlace", interlace>> >>)

vips_jpegsave_custom_call(in, buf, len, strip, quality, interlace) ==
    LibCall("vips_jpegsave_buffer", <<in, buf, len>>,
            << <<"strip", strip>>, <<"Q", quality>>,
               <<"optimize_coding", C_TRUE>>, <<"interlace", interlace>> >>)

\* ------------------------------------------------------------------ the background array

\* The arguments as the author of a two-element array would have passed them.
vips_flatten_0_white_args_two == [n |-> 2, vals |-> <<Dbl(1, 0), Dbl(255, 0)>>]

\* vips_array_double_newv(1.0, 255.0): the prototype's first parameter is
\* int n, so 1.0 is converted to the count 1; 255.0 is the one variadic double.
vips_flatten_0_white_args == [n |-> DoubleToInt(Dbl(1, 0)), vals |-> <<Dbl(255, 0)>>]

\* vips_array_double_newv(n, ...): an array of the first n variadic doubles.
vips_array_double_newv(n, vals) == [live |-> TRUE, data |-> SubSeq(vals, 1, n)]

\* A release on the success path only.
vips_flatten_0_unrefs_on_success(flatten_value) == IF flatten_value = 0 THEN 1 ELSE 0

\* The number of vips_area_unref calls vips_flatten_0 makes after the
\* flatten call has returned flatten_value.
vips_flatten_0_unrefs(flatten_value) == 1

\* ------------------------------------------------------------------ the shim's own effects

\* A return that collapses every failure to -1.
ReturnValue_collapsed(st) == IF st = 0 THEN 0 ELSE 0 - 1

\* return <wrapped call>: the value a shim function returns, given the
\* status st of its wrapped call.
ReturnValue(st) == st

\* The output pointers among the arguments of a shim call.
OutArgs(op, args) ==
    CASE op = "vips_initialize" -> {}
      [] op \in {"vips_jpegload_buffer_seq", "vips_jpegload_buffer_shrink",
                 "vips_pngload_buffer_seq"} -> {args[3]}
      [] op = "vips_jpegsave_custom" -> {args[2], args[3]}
      [] OTHER -> {args[2]}

\* A shim that clears the output slot when the wrapped call failed.
ShimStores_clear_on_failure(op, args, st) == IF st # 0 THEN OutArgs(op, args) ELSE {}

\* The output slots a shim function itself stores (a null) to: no function
\* of the file assigns through out, buf or len.
ShimStores(op, args, st) == {}

\* A shim that remembers the first handle it was given.
ShimRetains_first(op, args) == IF op = "vips_initialize" THEN {} ELSE {args[1]}

\* The handles a shim function keeps in storage that outlives the call: the
\* file has no static or global object.
ShimRetains(op, args) == {}

\* ------------------------------------------------------------------ the wrapped library

\* The output pointers among the arguments of a wrapped call.
LibOutPtrs(call) ==
    CASE call.fn = "vips_init" -> {}
      [] call.fn \in {"vips_jpegload_buffer", "vips_pngload_buffer"} -> {call.args[3]}
      [] call.fn = "vips_jpegsave_buffer" -> {call.args[2], call.args[3]}
      [] OTHER -> {call.args[2]}

\* What the library leaves in memory when a call returns st: on success a
\* new value in every output slot of the call, on failure nothing.
LibWrites(call, st) ==
    IF st = 0
    THEN {m \in [AllSlots -> Contents] :
            \A s \in AllSlots :
                IF s \in LibOutPtrs(call) \cap AllSlots
                THEN m[s] # 0 /\ m[s] # mem[s]
                ELSE m[s] = mem[s]}
    ELSE {mem}

\* ------------------------------------------------------------------ the state machine

Init ==
    /\ pc = "idle"
    /\ cur = [op |-> "none", args |-> <<>>]
    /\ libcalls = <<>>
    /\ status = 0
    /\ ret = 0
    /\ mem = [s \in AllSlots |-> 0]
    /\ mem0 = [s \in AllSlots |-> 0]
    /\ arr = NoArray
    /\ shimHeld = 0
    /\ retained = {}
    /\ memo = [state |-> "off", cur |-> [op |-> "none", args |-> <<>>],
               call |-> LibCall("none", <<>>, <<>>)]

\* The same, with the history probe armed: the first shim call and the
\* wrapped call it issued are remembered.
InitHist ==
    /\ pc = "idle"
    /\ cur = [op |-> "none", args |-> <<>>]
    /\ libcalls = <<>>
    /\ status = 0
    /\ ret = 0
    /\ mem = [s \in AllSlots |-> 0]
    /\ mem0 = [s \in AllSlots |-> 0]
    /\ arr = NoArray
    /\ shimHeld = 0
    /\ retained = {}
    /\ memo = [state |-> "armed", cur |-> [op |-> "none", args |-> <<>>],
               call |-> LibCall("none", <<>>, <<>>)]

\* The caller is between two shim calls.
Callable == pc = "idle"

\* The probe's record of the shim call c issuing the wrapped call call.
Remember(c, call) ==
    IF memo.state = "armed" THEN [state |-> "set", cur |-> c, call |-> call] ELSE memo

\* Entry of a one-line shim function: it issues its wrapped call.
Enter(op, args, call) ==
    /\ pc' = "in_lib"
    /\ cur' = [op |-> op, args |-> args]
    /\ libcalls' = <<call>>
    /\ status' = 0
    /\ ret' = 0
    /\ mem0' = mem
    /\ memo' = Remember([op |-> op, args |-> args], call)
    /\ UNCHANGED <<mem, arr, shimHeld, retained>>

vips_initialize ==
    /\ Callable
    /\ Enter("vips_initialize", <<>>, vips_initialize_call)

vips_gaussian_blur ==
    /\ Callable
    /\ \E in \in Handles, out \in Slots, sigma \in Doubles :
           Enter("vips_gaussian_blur", <<in, out, sigma>>,
                 vips_gaussian_blur_call(in, out, sigma))

vips_affine_interpolator ==
    /\ Callable
    /\ \E in \in Handles, out \in Slots, a \in Doubles, b \in Doubles,
          c \in Doubles, d \in Doubles, interpolator \in Handles :
           Enter("vips_affine_interpolator", <<in, out, a, b, c, d, interpolator>>,
                 vips_affine_interpolator_call(in, out, a, b, c, d, interpolator))

vips_jpegload_buffer_seq ==
    /\ Callable
    /\ \E buf \in Handles, len \in IntArgs, out \in Slots :
           Enter("vips_jpegload_buffer_seq", <<buf, len, out>>,
                 vips_jpegload_buffer_seq_call(buf, len, out))

vips_magickload_ ==
    /\ Callable
    /\ \E filename \in Handles, out \in Slots :
           Enter("vips_magickload_", <<filename, out>>,
                 vips_magickload_call(filename, out))

vips_jpegload_buffer_shrink ==
    /\ Callable
    /\ \E buf \in Handles, len \in IntArgs, out \in Slots, shrink \in IntArgs :
           Enter("vips_jpegload_buffer_shrink", <<buf, len, out, shrink>>,
                 vips_jpegload_buffer_shrink_call(buf, len, out, shrink))

vips_pngload_buffer_seq ==
    /\ Callable
    /\ \E buf \in Handles, len \in IntArgs, out \in Slots :
           Enter("vips_pngload_buffer_seq", <<buf, len, out>>,
                 vips_pngload_buffer_seq_call(buf, len, out))

vips_shrink_0 ==
    /\ Callable
    /\ \E in \in Handles, out \in Slots, xshrink \in Doubles, yshrink \in Doubles :
           Enter("vips_shrink_0", <<in, out, xshrink, yshrink>>,
                 vips_shrink_0_call(in, out, xshrink, yshrink))

vips_copy_0 ==
    /\ Callable
    /\ \E in \in Handles, out \in Slots :
           Enter("vips_copy_0", <<in, out>>, vips_copy_0_call(in, out))

vips_embed_extend ==
    /\ Callable
    /\ \E in \in Handles, out \in Slots, left \in IntArgs, top \in IntArgs,
          width \in IntArgs, height \in IntArgs, extend \in IntArgs :
           Enter("vips_embed_extend", <<in, out, left, top, width, height, extend>>,
                 vips_embed_extend_call(in, out, left, top, width, height, extend))

vips_colourspace_0 ==
    /\ Callable
    /\ \E in \in Handles, out \in Slots, space \in IntArgs :
           Enter("vips_colourspace_0", <<in, out, space>>,
                 vips_colourspace_0_call(in, out, space))

vips_extract_area_0 ==
    /\ Callable
    /\ \E in \in Handles, out \in Slots, left \in IntArgs, top \in IntArgs,
          width \in IntArgs, height \in IntArgs :
           Enter("vips_extract_area_0", <<in, out, left, top, width, height>>,
                 vips_extract_area_0_call(in, out, left, top, width, height))

vips_jpegsave_custom ==
    /\ Callable
    /\ \E in \in Handles, buf \in Slots, len \in LenSlots, strip \in IntArgs,
          quality \in IntArgs, interlace \in IntArgs :
           Enter("vips_jpegsave_custom", <<in, buf, len, strip, quality, interlace>>,
                 vips_jpegsave_custom_call(in, buf, len, strip, quality, interlace))

\* vips_flatten_0, line 64: the background array is allocated.
vips_flatten_0 ==
    /\ Callable
    /\ \E in \in Handles, out \in Slots :
        cur' = [op |-> "vips_flatten_0", args |-> <<in, out>>]
    /\ pc' = "acquired"
    /\ arr' = vips_array_double_newv(vips_flatten_0_white_args.n,
                                     vips_flatten_0_white_args.vals)
    /\ shimHeld' = shimHeld + 1
    /\ libcalls' = <<LibCall("vips_array_double_newv",
                             <<vips_flatten_0_white_args.n>> \o vips_flatten_0_white_args.vals,
                             <<>>)>>
    /\ status' = 0
    /\ ret' = 0
    /\ mem0' = mem
    /\ UNCHANGED <<mem, retained, memo>>

\* vips_flatten_0, line 66: the flatten call is issued.
FlattenCall ==
    /\ pc = "acquired"
    /\ pc' = "in_lib"
    /\ libcalls' = Append(libcalls,
                          vips_flatten_0_call(cur.args[1], cur.args[2], WhiteCell))
    /\ memo' = Remember(cur, vips_flatten_0_call(cur.args[1], cur.args[2], WhiteCell))
    /\ UNCHANGED <<cur, status, ret, mem, mem0, arr, shimHeld, retained>>

\* The wrapped call returns.
LibReturn ==
    /\ pc = "in_lib"
    /\ pc' = "lib_done"
    /\ \E st \in Statuses :
        /\ status' = st
        /\ mem' \in LibWrites(libcalls[Len(libcalls)], st)
    /\ UNCHANGED <<cur, libcalls, ret, mem0, arr, shimHeld, retained, memo>>

\* vips_flatten_0, line 67: the background array is released.
FlattenRelease ==
    /\ pc = "lib_done"
    /\ cur.op = "vips_flatten_0"
    /\ pc' = "released"
    /\ shimHeld' = shimHeld - vips_flatten_0_unrefs(status)
    /\ arr' = IF vips_flatten_0_unrefs(status) > 0 THEN NoArray ELSE arr
    /\ libcalls' = libcalls \o [i \in 1..vips_flatten_0_unrefs(status) |->
                                    LibCall("vips_area_unref", <<WhiteCell>>, <<>>)]
    /\ UNCHANGED <<cur, status, ret, mem, mem0, retained, memo>>

\* The shim function returns to its caller.
Return ==
    /\ \/ pc = "lib_done" /\ cur.op # "vips_flatten_0"
       \/ pc = "released"
    /\ pc' = "done"
    /\ ret' = ReturnValue(status)
    /\ mem' = [s \in AllSlots |->
                 IF s \in ShimStores(cur.op, cur.args, status) THEN 0 ELSE mem[s]]
    /\ retained' = retained \cup ShimRetains(cur.op, cur.args)
    /\ UNCHANGED <<cur, libcalls, status, mem0, arr, shimHeld, memo>>

\* The caller takes the result; the frame of the shim call is gone.
CallerResumes ==
    /\ pc = "done"
    /\ pc' = "idle"
    /\ cur' = [op |-> "none", args |-> <<>>]
    /\ libcalls' = <<>>
    /\ status' = 0
    /\ ret' = 0
    /\ mem0' = mem
    /\ UNCHANGED <<mem, arr, shimHeld, retained, memo>>

Next ==
    \/ vips_initialize
    \/ vips_gaussian_blur
    \/ vips_affine_interpolator
    \/ vips_jpegload_buffer_seq
    \/ vips_magickload_
    \/ vips_jpegload_buffer_shrink
    \/ vips_pngload_buffer_seq
    \/ vips_shrink_0
    \/ vips_copy_0
    \/ vips_flatten_0
    \/ FlattenCall
    \/ vips_embed_extend
    \/ vips_colourspace_0
    \/ vips_extract_area_0
    \/ vips_jpegsave_custom
    \/ LibReturn
    \/ FlattenRelease
    \/ Return
    \/ CallerResumes

Spec == Init /\ [][Next]_vars

SpecHist == InitHist /\ [][Next]_vars

TypeOK ==
    /\ pc \in {"idle", "acquired", "in_lib", "lib_done", "released", "done"}
    /\ status \in Statuses
    /\ ret \in Statuses
    /\ mem \in [AllSlots -> Contents]
    /\ mem0 \in [AllSlots -> Contents]
    /\ shimHeld \in 0..1
    /\ retained \subseteq Handles

\* ------------------------------------------------------------------ the claims

\* The shim function op has issued its wrapped call.
InFlight(op) == cur.op = op /\ pc \in {"in_lib", "lib_done", "released", "done"}

\* The wrapped call of the shim call in progress.
Wrapped == IF cur.op = "vips_flatten_0" THEN libcalls[2] ELSE libcalls[1]

\* The library function each shim function wraps.
WrappedFn(op) ==
    CASE op = "vips_initialize" -> "vips_init"
      [] op = "vips_gaussian_blur" -> "vips_gaussblur"
      [] op = "vips_affine_interpolator" -> "vips_affine"
      [] op = "vips_jpegload_buffer_seq" -> "vips_jpegload_buffer"
      [] op = "vips_magickload_" -> "vips_magickload"
      [] op = "vips_jpegload_buffer_shrink" -> "vips_jpegload_buffer"
      [] op = "vips_pngload_buffer_seq" -> "vips_pngload_buffer"
      [] op = "vips_shrink_0" -> "vips_shrink"
      [] op = "vips_copy_0" -> "vips_copy"
      [] op = "vips_flatten_0" -> "vips_flatten"
      [] op = "vips_embed_extend" -> "vips_embed"
      [] op = "vips_colourspace_0" -> "vips_colourspace"
      [] op = "vips_extract_area_0" -> "vips_extract_area"
      [] op = "vips_jpegsave_custom" -> "vips_jpegsave_buffer"
      [] OTHER -> "none"

\* The positions of the library function fn in the calls of the shim call.
CallsOf(fn) == {i \in DOMAIN libcalls : libcalls[i].fn = fn}

\* C1: every shim function returns exactly the status its wrapped call
\* returned, zero or not, and has issued that wrapped call exactly once.
C1_StatusPropagated ==
    /\ pc = "done" =>
        /\ ret = status
        /\ Cardinality(CallsOf(WrappedFn(cur.op))) = 1
    /\ pc \in {"in_lib", "lib_done", "released"} =>
        Cardinality(CallsOf(WrappedFn(cur.op))) = 1

C1_Witness ==
    /\ pc = "done"
    /\ cur.op = "vips_jpegsave_custom"
    /\ status = MaxStatus
    /\ ret = MaxStatus

\* C2: in vips_flatten_0 the background array is acquired before the flatten
\* call, held by the shim while that call runs, and released exactly once
\* after it has returned, whatever its status; between shim calls the shim
\* holds no array.
C2_ArrayScoped ==
    /\ (cur.op = "vips_flatten_0" /\ pc \in {"acquired", "in_lib", "lib_done"}) =>
        /\ shimHeld = 1
        /\ arr.live
        /\ CallsOf("vips_area_unref") = {}
        /\ CallsOf("vips_array_double_newv") = {1}
    /\ InFlight("vips_flatten_0") => CallsOf("vips_flatten") = {2}
    /\ (cur.op = "vips_flatten_0" /\ pc \in {"released", "done"}) =>
        /\ CallsOf("vips_area_unref") = {3}
        /\ ~arr.live
    /\ pc \in {"released", "done", "idle"} => shimHeld = 0

C2_Witness ==
    /\ pc = "done"
    /\ cur.op = "vips_flatten_0"
    /\ ret # 0
    /\ shimHeld = 0

\* C3 as stated: the background of the flatten call is a two-element vector.
C3_Original ==
    InFlight("vips_flatten_0") /\ pc = "in_lib" => Len(arr.data) = 2

\* C3, amended: the background of the flatten call is the one-element
\* vector (255.0), the literal 1.0 being its element count, passed as the
\* one option "background", whatever the input image and the output slot.
C3_Background ==
    (InFlight("vips_flatten_0") /\ pc = "in_lib") =>
        /\ Wrapped.opts = << <<"background", WhiteCell>> >>
        /\ arr.live
        /\ arr.data = <<Dbl(255, 0)>>

C3_Witness ==
    /\ pc = "in_lib"
    /\ cur.op = "vips_flatten_0"
    /\ cur.args[1] = 2
    /\ Len(arr.data) = 1

\* C4: a shim call that returns a non-zero status leaves every output slot
\* as it was at the call's entry; a successful one changes only the slots it
\* was given; nothing is stored before the wrapped call returns.
C4_OutputOnSuccessOnly ==
    /\ pc \in {"acquired", "in_lib"} => mem = mem0
    /\ (pc \in {"lib_done", "released", "done"} /\ status # 0) => mem = mem0
    /\ pc = "done" /\ ret # 0 => mem = mem0
    /\ pc \in {"lib_done", "released", "done"} =>
        \A s \in AllSlots \ OutArgs(cur.op, cur.args) : mem[s] = mem0[s]

C4_Witness ==
    /\ pc = "done"
    /\ cur.op = "vips_jpegsave_custom"
    /\ ret # 0
    /\ mem0[cur.args[2]] # 0
    /\ mem0[cur.args[3]] # 0

\* C5: vips_jpegsave_custom passes strip, Q and interlace from its caller
\* and optimize_coding always TRUE, and no other option.
C5_JpegsaveOptions ==
    InFlight("vips_jpegsave_custom") =>
        /\ Wrapped.fn = "vips_jpegsave_buffer"
        /\ Wrapped.args = SubSeq(cur.args, 1, 3)
        /\ Wrapped.opts = << <<"strip", cur.args[4]>>, <<"Q", cur.args[5]>>,
                             <<"optimize_coding", 1>>, <<"interlace", cur.args[6]>> >>

C5_Witness ==
    /\ pc = "in_lib"
    /\ cur.op = "vips_jpegsave_custom"
    /\ cur.args[4] = 0
    /\ cur.args[5] = MaxInt
    /\ cur.args[6] = 0

\* C6: both sequential decoders pass buffer, length and output slot as given
\* and the one option access = sequential.
C6_SequentialLoaders ==
    /\ InFlight("vips_jpegload_buffer_seq") =>
        Wrapped = [fn |-> "vips_jpegload_buffer", args |-> cur.args,
                   opts |-> << <<"access", 1>> >>]
    /\ InFlight("vips_pngload_buffer_seq") =>
        Wrapped = [fn |-> "vips_pngload_buffer", args |-> cur.args,
                   opts |-> << <<"access", 1>> >>]

C6_Witness ==
    /\ pc = "lib_done"
    /\ cur.op = "vips_pngload_buffer_seq"
    /\ cur.args = <<2, MaxInt, 2>>
    /\ status = 0

\* C7: vips_jpegload_buffer_shrink passes the shrink factor as given, for
\* every value, as the one option "shrink", and buffer, length and output
\* slot as given.
C7_ShrinkForwarded ==
    InFlight("vips_jpegload_buffer_shrink") =>
        Wrapped = [fn |-> "vips_jpegload_buffer", args |-> SubSeq(cur.args, 1, 3),
                   opts |-> << <<"shrink", cur.args[4]>> >>]

C7_Witness ==
    /\ pc = "in_lib"
    /\ cur.op = "vips_jpegload_buffer_shrink"
    /\ cur.args[4] = 0

\* The library functions that change a reference count or free.
RefCountFns == {"g_object_ref", "g_object_unref", "vips_area_unref", "g_free", "free"}

\* C8: the shim keeps no handle after a call, makes no reference-count or
\* free call on a handle, calls nothing but its wrapped function (and, in
\* vips_flatten_0, the two array functions), and a shim call with the
\* arguments of the first shim call issues the wrapped call the first one
\* issued, whatever happened in between.
C8_Stateless ==
    /\ retained = {}
    /\ \A i \in DOMAIN libcalls :
        /\ libcalls[i].fn \in RefCountFns => libcalls[i].args[1] \notin Handles
        /\ libcalls[i].fn \in {WrappedFn(cur.op)} \cup
             (IF cur.op = "vips_flatten_0"
              THEN {"vips_array_double_newv", "vips_area_unref"} ELSE {})
    /\ (memo.state = "set" /\ cur = memo.cur /\ InFlight(cur.op)) =>
        Wrapped = memo.call

C8_Witness ==
    /\ memo.state = "set"
    /\ pc = "done"
    /\ cur.op = "vips_copy_0"
    /\ cur = memo.cur
    /\ mem0[cur.args[2]] # 0
    /\ mem0[cur.args[2]] # cur.args[1]

\* C9: vips_embed_extend and vips_affine_interpolator pass their positional
\* parameters in declaration order and one option each, "extend" and
\* "interpolate", with the caller's value.
C9_EmbedAffine ==
    /\ InFlight("vips_embed_extend") =>
        Wrapped = [fn |-> "vips_embed", args |-> SubSeq(cur.args, 1, 6),
                   opts |-> << <<"extend", cur.args[7]>> >>]
    /\ InFlight("vips_affine_interpolator") =>
        Wrapped = [fn |-> "vips_affine", args |-> SubSeq(cur.args, 1, 6),
                   opts |-> << <<"interpolate", cur.args[7]>> >>]

C9_Witness ==
    /\ pc = "in_lib"
    /\ cur.op = "vips_embed_extend"
    /\ cur.args[3] = 0
    /\ cur.args[4] = MaxInt
    /\ cur.args[7] = MaxInt

\* The shim functions without any option.
PassThroughs ==
    {"vips_shrink_0", "vips_copy_0", "vips_colourspace_0", "vips_gaussian_blur",
     "vips_extract_area_0", "vips_magickload_"}

\* C10: each pass-through issues its wrapped function with the caller's
\* arguments in order and no option, and returns its status: the call a
\* direct use of the library would make.
C10_PassThrough ==
    \A op \in PassThroughs :
        /\ InFlight(op) =>
            libcalls = <<[fn |-> WrappedFn(op), args |-> cur.args, opts |-> <<>>]>>
        /\ (InFlight(op) /\ pc = "done") => ret = status

C10_Witness ==
    /\ pc = "done"
    /\ cur.op = "vips_gaussian_blur"
    /\ ret = 0
    /\ mem # mem0

====
